---- MODULE Spec2Model ----
(***************************************************************************)
(* CMSIS-NN  arm_elementwise_mul_s8: s8 element wise multiplication of two *)
(* vectors (Source/BasicMathFunctions/arm_elementwise_mul_s8.c).           *)
(*                                                                         *)
(* The kernel is modelled as a state machine over its loop structure, once *)
(* for the build with ARM_MATH_LOOPUNROLL and ARM_MATH_DSP ("dsp") and     *)
(* once for the build without ("scalar").  All machine arithmetic keeps    *)
(* its width: int32 values are integers in [Q31_MIN, Q31_MAX], a packed    *)
(* 32-bit register is a record of its two halfwords, and the 64-bit        *)
(* product of the doubling high multiply is computed on base-2^15 digits.  *)
(* Little-endian byte order (the Cortex-M default) is modelled.            *)
(***************************************************************************)
EXTENDS Integers, Sequences, FiniteSets, TLC

VARIABLES
    build,          \* "dsp": ARM_MATH_LOOPUNROLL && ARM_MATH_DSP; "scalar": otherwise
    arg,            \* the by-value parameters of the call
    input_1_mem,    \* the caller's first input buffer
    input_2_mem,    \* the caller's second input buffer
    output_mem,     \* the caller's output buffer
    input_1_vect,   \* read pointer into input_1_mem (elements consumed)
    input_2_vect,   \* read pointer into input_2_mem (elements consumed)
    output,         \* write pointer into output_mem (elements produced)
    loop_count,     \* the local loop counter
    pc,             \* position in the function body
    status,         \* the returned arm_status, "none" until the return
    hist,           \* history: per output index, the locals that produced it
    reads_1,        \* history: number of reads of each input_1_mem cell
    reads_2,        \* history: number of reads of each input_2_mem cell
    writes,         \* history: number of writes of each output_mem cell
    overflow,       \* history: the int32 intermediates that left the int32 range
    rs              \* the rescaler exercised in isolation (RescaleSpec)

vars == <<build, arg, input_1_mem, input_2_mem, output_mem, input_1_vect,
          input_2_vect, output, loop_count, pc, status, hist, reads_1,
          reads_2, writes, overflow, rs>>

(***************************************************************************)
(* Machine integers.                                                       *)
(***************************************************************************)
Q31_MAX == (1073741823 + 1073741823) + 1
Q31_MIN == (-Q31_MAX) - 1
Q15 == 32768          \* 2^15, the digit base of the wide product
H16 == 65536          \* 2^16, one halfword

IsInt32(x) == Q31_MIN <= x /\ x <= Q31_MAX

RECURSIVE Pow2(_)
Pow2(n) == IF n = 0 THEN 1 ELSE 2 * Pow2(n - 1)

\* (int8_t)x, (int16_t)x for an int32 x: keep the low bits, reinterpret the sign.
S8(x) == LET u == x % 256 IN IF u >= 128 THEN u - 256 ELSE u
S16(x) == LET u == x % H16 IN IF u >= Q15 THEN u - H16 ELSE u
U8(x) == x % 256

\* a + b in int32: the two's-complement result of the ADD instruction, and
\* whether the exact sum left the int32 range (signed overflow).
Add32(a, b) ==
    IF b > 0 /\ a > Q31_MAX - b
    THEN [v |-> ((a - Q31_MAX) + (b - Q31_MAX)) - 2, ovf |-> TRUE]
    ELSE IF b < 0 /\ a < Q31_MIN - b
    THEN [v |-> ((a + Q31_MAX) + (b + Q31_MAX)) + 2, ovf |-> TRUE]
    ELSE [v |-> a + b, ovf |-> FALSE]

\* |x| <= 2^31 as three base-2^15 digits, least significant first.
Mag(x) ==
    IF x >= 0 THEN <<x % Q15, (x \div Q15) % Q15, x \div (Q15 * Q15)>>
    ELSE IF x = Q31_MIN THEN <<0, 0, 2>>
    ELSE LET n == -x IN <<n % Q15, (n \div Q15) % Q15, n \div (Q15 * Q15)>>

\* The exact product |a| * |b| < 2^63 as five base-2^15 digits (digit 4 may
\* reach 4), by schoolbook multiplication with carries.
MagMulDigits(x, y) ==
    LET c0 == x[1] * y[1]
        c1 == (x[1] * y[2] + x[2] * y[1]) + (c0 \div Q15)
        c2 == (x[1] * y[3] + x[2] * y[2] + x[3] * y[1]) + (c1 \div Q15)
        c3 == (x[2] * y[3] + x[3] * y[2]) + (c2 \div Q15)
        c4 == (x[3] * y[3]) + (c3 \div Q15)
    IN <<c0 % Q15, c1 % Q15, c2 % Q15, c3 % Q15, c4>>
MagMul(a, b) == MagMulDigits(Mag(a), Mag(b))

\* a * b in int32: the low 32 bits of the exact product, and whether the exact
\* product left the int32 range; p is the magnitude's digits, neg the sign.
Mul32Digits(p, neg) ==
    LET low31 == p[1] + p[2] * Q15 + (p[3] % 2) * (Q15 * Q15)
        bit31 == (p[3] \div 2) % 2
        big == p[3] >= 2 \/ p[4] > 0 \/ p[5] > 0       \* |a*b| >= 2^31
    IN IF ~neg
       THEN [v |-> IF bit31 = 1 THEN (low31 - Q31_MAX) - 1 ELSE low31, ovf |-> big]
       ELSE [v |-> IF bit31 = 0 THEN -low31
                   ELSE IF low31 = 0 THEN Q31_MIN ELSE (Q31_MAX - low31) + 1,
             ovf |-> big /\ ~(p[3] = 2 /\ p[4] = 0 /\ p[5] = 0 /\ low31 = 0)]
Mul32(a, b) == Mul32Digits(MagMul(a, b), (a < 0) # (b < 0))

\* x << k in int32 for 1 <= k <= 30: the low 32 bits of x * 2^k.
ShiftLeft32(x, k) ==
    LET low == x % Pow2(31 - k)
        top == (x \div Pow2(31 - k)) % 2
    IN IF top = 1 THEN ((low * Pow2(k)) - Q31_MAX) - 1 ELSE low * Pow2(k)

\* Whether x * 2^k leaves the int32 range (1 <= k <= 30).
ShiftLeftOverflows(x, k) ==
    LET q == x \div Pow2(31 - k) IN q # 0 /\ q # -1

(***************************************************************************)
(* The Fixed-Point Rescaler's two stages (arm_nnsupportfunctions.h).       *)
(***************************************************************************)

\* The quotient of the magnitude p (base-2^15 digits) by 2^31, rounded to
\* nearest with ties away from zero: digit 3 weighs 2^30, so the rounding adds
\* 1 to it.  The result is <<q, d5>>, standing for q + d5 * 2^29 with d5 <= 4.
RoundedHigh(p) ==
    LET d3 == p[3] + 1
        d4 == p[4] + (d3 \div Q15)
        d5 == p[5] + (d4 \div Q15)
    IN <<((d3 % Q15) \div 2) + (d4 % Q15) * (Q15 \div 2), d5>>

\* The doubling high multiply without its saturation: the INT32_MIN * INT32_MIN
\* case wraps to INT32_MIN.
HighSigned_nosat(h, neg) ==
    IF h[2] >= 4 THEN Q31_MIN
    ELSE IF neg THEN -(h[1] + h[2] * Pow2(29)) ELSE h[1] + h[2] * Pow2(29)
\* The rounded quotient with its sign, saturated to the int32 range.
HighSigned(h, neg) ==
    IF h[2] >= 4 THEN (IF neg THEN Q31_MIN ELSE Q31_MAX)
    ELSE IF neg THEN -(h[1] + h[2] * Pow2(29)) ELSE h[1] + h[2] * Pow2(29)

\* arm_nn_sat_doubling_high_mult: the exact product m1 * m2, doubled, rounded
\* to the nearest multiple of 2^32 (ties away from zero), its high 32 bits,
\* saturated to the int32 range.
sat_doubling_high_mult(m1, m2) ==
    HighSigned(RoundedHigh(MagMul(m1, m2)), (m1 < 0) # (m2 < 0))

\* The rounding shift done as "add 1 << (exponent - 1), then shift right".
divide_by_power_of_two_bias(dividend, exponent) ==
    IF exponent = 0 THEN dividend
    ELSE IF exponent < 0 THEN ShiftLeft32(dividend, -exponent)
    ELSE Add32(dividend, Pow2(exponent - 1)).v \div Pow2(exponent)

\* arm_nn_divide_by_power_of_two: dividend / 2^exponent rounded to nearest,
\* ties away from zero, for exponent >= 0; an exact left shift by -exponent
\* for exponent < 0.
divide_by_power_of_two(dividend, exponent) ==
    IF exponent < 0 THEN ShiftLeft32(dividend, -exponent)
    ELSE LET remainder_mask == Pow2(exponent) - 1
             remainder == dividend % Pow2(exponent)
             result == dividend \div Pow2(exponent)
             threshold == (remainder_mask \div 2) + (IF result < 0 THEN 1 ELSE 0)
         IN IF remainder > threshold THEN result + 1 ELSE result

(***************************************************************************)
(* Packed 32-bit registers: lo is bits 0..15, hi is bits 16..31, each an   *)
(* unsigned halfword.  The intrinsics are those of the CMSIS core headers. *)
(***************************************************************************)
RECURSIVE BitOr(_, _, _)
BitOr(a, b, n) ==
    IF n = 0 THEN 0
    ELSE (IF a % 2 = 1 \/ b % 2 = 1 THEN 1 ELSE 0) + 2 * BitOr(a \div 2, b \div 2, n - 1)

\* An int32 as a register.
Word(x) == [lo |-> x % H16, hi |-> (x \div H16) % H16]
\* x << 16U, x & 0x0FFFFL, x | y on registers.
Shl16(w) == [lo |-> 0, hi |-> w.lo]
Shr16(w) == [lo |-> w.hi, hi |-> IF w.hi >= Q15 THEN H16 - 1 ELSE 0]
AndFFFF(w) == [lo |-> w.lo, hi |-> 0]
Or32(w1, w2) == [lo |-> BitOr(w1.lo, w2.lo, 16), hi |-> BitOr(w1.hi, w2.hi, 16)]
\* The register read back as an int32, for a register whose top halfword is 0.
LowValue(w) == w.lo

\* __SADD16: two independent 16-bit additions, each wrapping.
SADD16(x, y) == [lo |-> (x.lo + y.lo) % H16, hi |-> (x.hi + y.hi) % H16]
\* __SXTB16: bytes 0 and 2 sign-extended to the two halfwords.
SXTB16(w) == [lo |-> S8(w.lo % 256) % H16, hi |-> S8(w.hi % 256) % H16]
\* __ROR(w, 8): bytes (b0, b1, b2, b3) become (b1, b2, b3, b0).
ROR8(w) == [lo |-> (w.lo \div 256) + 256 * (w.hi % 256),
            hi |-> (w.hi \div 256) + 256 * (w.lo % 256)]
\* arm_nn_read_q7x4_ia: four consecutive bytes as one little-endian word.
read_q7x4(mem, p) == [lo |-> U8(mem[p + 1]) + 256 * U8(mem[p + 2]),
                      hi |-> U8(mem[p + 3]) + 256 * U8(mem[p + 4])]
\* read_and_pad_reordered: out1 holds elements 0 and 2, out2 elements 1 and 3.
read_and_pad_reordered(mem, p) ==
    LET inA == read_q7x4(mem, p)
    IN [out1 |-> SXTB16(inA), out2 |-> SXTB16(ROR8(inA))]
\* __PACKq7(v0, v1, v2, v3): v0 in the lowest byte.
PACKq7(v0, v1, v2, v3) == [lo |-> U8(v0) + 256 * U8(v1), hi |-> U8(v2) + 256 * U8(v3)]
\* write_q7x4_ia: the word's four bytes stored at p+1 .. p+4 of mem.
write_q7x4(mem, p, w) ==
    [i \in DOMAIN mem |->
        IF i = p + 1 THEN S8(w.lo % 256)
        ELSE IF i = p + 2 THEN S8(w.lo \div 256)
        ELSE IF i = p + 3 THEN S8(w.hi % 256)
        ELSE IF i = p + 4 THEN S8(w.hi \div 256)
        ELSE mem[i]]

(***************************************************************************)
(* The kernel's expressions.                                               *)
(***************************************************************************)
MAX(a, b) == IF a > b THEN a ELSE b
MIN(a, b) == IF a < b THEN a ELSE b

\* offset_packed without the mask of the low halfword.
offset_packed_nomask(offset) == Or32(Shl16(Word(offset)), Word(offset))
\* offset_1_packed, offset_2_packed.
offset_packed(offset) == Or32(Shl16(Word(offset)), AndFFFF(Word(offset)))

\* (int16_t)(b & 0x0FFFFL) and (int16_t)((b >> 16U) & 0x0FFFFL).
LowLane(w) == S16(LowValue(AndFFFF(w)))
HighLane(w) == S16(LowValue(AndFFFF(Shr16(w))))

\* The raw sample, its zero point not added.
Correct_raw(sample, offset) == [v |-> sample, ovf |-> FALSE]
\* *input_vect++ + input_offset of the scalar loop.
Correct(sample, offset) == Add32(sample, offset)

\* shifted + out_offset, with the overflows of the shift and of the sum.
AddOutOffset(shifted, shift_ovf) ==
    LET sum == Add32(shifted, arg.out_offset)
    IN [v |-> sum.v,
        ovf |-> (IF shift_ovf THEN {"rescale"} ELSE {}) \cup (IF sum.ovf THEN {"sum"} ELSE {})]
\* The power-of-two stage applied to the high multiply's result.
ShiftHigh(high, exponent) ==
    AddOutOffset(divide_by_power_of_two(high, exponent),
                 exponent < 0 /\ ShiftLeftOverflows(high, -exponent))

\* The rescale with out_shift passed where -out_shift is meant.
Requantize_unnegated(mul_res) ==
    ShiftHigh(sat_doubling_high_mult(mul_res, arg.out_mult), arg.out_shift)
\* The rescale with a plain high multiply in place of the doubling one.
Requantize_nodouble(mul_res) ==
    ShiftHigh(sat_doubling_high_mult(mul_res, arg.out_mult) \div 2, -arg.out_shift)
\* The rescale with a plain 32-bit multiply in place of the high multiply.
Requantize_plainmul(mul_res) ==
    LET high == Mul32(mul_res, arg.out_mult)
        rq == ShiftHigh(high.v, -arg.out_shift)
    IN [rq EXCEPT !.ovf = rq.ovf \cup (IF high.ovf THEN {"rescale"} ELSE {})]
\* arm_nn_divide_by_power_of_two(arm_nn_sat_doubling_high_mult(mul_res, out_mult),
\*                               -out_shift) + out_offset
Requantize(mul_res) ==
    ShiftHigh(sat_doubling_high_mult(mul_res, arg.out_mult), -arg.out_shift)

\* The clamp with its upper bound left out.
Activation_nomin(mul_res) == MAX(mul_res, arg.out_activation_min)
\* mul_res = MAX(mul_res, out_activation_min); mul_res = MIN(mul_res, out_activation_max);
Activation(mul_res) == MIN(MAX(mul_res, arg.out_activation_min), arg.out_activation_max)

\* The locals of one element, kept for the history: prod is the product, rq
\* the rescaled sum, c the clamped value.
ElementRecord(input_1, input_2, prod, rq, c) ==
    [input_1 |-> input_1, input_2 |-> input_2, product |-> prod.v,
     sum |-> rq.v, mul_res |-> c, q7 |-> S8(c),
     ovf |-> (IF prod.ovf THEN {"product"} ELSE {}) \cup rq.ovf]
Clamped(input_1, input_2, prod, rq) ==
    ElementRecord(input_1, input_2, prod, rq, Activation(rq.v))
Rescaled(input_1, input_2, prod) ==
    Clamped(input_1, input_2, prod, Requantize(prod.v))
\* mul_res = input_1 * input_2; rescale; clamp; (q7_t)mul_res.
MulElement(input_1, input_2) == Rescaled(input_1, input_2, Mul32(input_1, input_2))

\* The four results packed with r2 and r3 exchanged.
PackResults_swapped(r1, r2, r3, r4) == PACKq7(r1, r3, r2, r4)
\* __PACKq7(r1, r2, r3, r4)
PackResults(r1, r2, r3, r4) == PACKq7(r1, r2, r3, r4)

\* loop_count = block_size >> 2;
UnrolledCount(block_size) == block_size \div 4
\* The whole block_size again as the remainder.
TailCount_all(block_size) == block_size
\* loop_count = block_size & 0x3;
TailCount(block_size) == block_size % 4

(***************************************************************************)
(* Bounds of the model and the inputs the calls are drawn from.            *)
(***************************************************************************)
MaxBlock == 8        \* block_size ranges over 0 .. MaxBlock
MaxShift == 2        \* out_shift ranges over -MaxShift .. 0
MemGuard == 4        \* cells of each buffer beyond block_size
MaxVal == 12         \* the rescaler is exercised on -MaxVal .. MaxVal and edge values
MaxExp == 3          \* and on shifts 0 .. MaxExp

Builds == {"dsp", "scalar"}

\* Sample patterns, repeated along the buffer.
Patterns_1 == {<<10, -5>>, <<0, 127, -128, -1, 2>>}
Patterns_2 == {<<3>>, <<2, 127, -128, -7>>}
Fill(pat, n) == [i \in 1..n |-> pat[((i - 1) % Len(pat)) + 1]]

\* Zero points inside the sample type's range, and two that the 16-bit lanes
\* of the dsp build cannot hold once a sample is added.
Offsets_1 == {-128, 0, 5, 32767, 65541}
Offsets_2 == {-128, 0}
OutOffsets == {0, -3, Q31_MAX - 65536, Q31_MAX - 65535}
OutMults == {Q31_MAX, Pow2(30), Q31_MIN}
OutShifts == {-k : k \in 0..MaxShift}
Activations == {<<-128, 127>>, <<-20, 30>>}

Args ==
    {[input_1_offset |-> o1, input_2_offset |-> o2, out_offset |-> oo,
      out_mult |-> m, out_shift |-> sh, out_activation_min |-> act[1],
      out_activation_max |-> act[2], block_size |-> n] :
        o1 \in Offsets_1, o2 \in Offsets_2, oo \in OutOffsets, m \in OutMults,
        sh \in OutShifts, act \in Activations, n \in 0..MaxBlock}

BufLen(block_size) == block_size + MemGuard

NoElement == [input_1 |-> 0, input_2 |-> 0, product |-> 0, sum |-> 0,
              mul_res |-> 0, q7 |-> 0, ovf |-> {}]
RsIdle == [stage |-> "idle", value |-> 0, multiplier |-> 0, shift |-> 0,
           high |-> 0, result |-> 0]

Bump(count, cells) == [i \in DOMAIN count |-> IF i \in cells THEN count[i] + 1 ELSE count[i]]

(***************************************************************************)
(* The call: Init is the state on entry to arm_elementwise_mul_s8.         *)
(***************************************************************************)
Init ==
    /\ build \in Builds
    /\ arg \in Args
    /\ \E p1 \in Patterns_1 : input_1_mem = Fill(p1, BufLen(arg.block_size))
    /\ \E p2 \in Patterns_2 : input_2_mem = Fill(p2, BufLen(arg.block_size))
    /\ output_mem = [i \in 1..BufLen(arg.block_size) |-> 0]
    /\ input_1_vect = 0
    /\ input_2_vect = 0
    /\ output = 0
    /\ loop_count = 0
    /\ pc = "entry"
    /\ status = "none"
    /\ hist = [i \in 1..BufLen(arg.block_size) |-> NoElement]
    /\ reads_1 = [i \in 1..BufLen(arg.block_size) |-> 0]
    /\ reads_2 = [i \in 1..BufLen(arg.block_size) |-> 0]
    /\ writes = [i \in 1..BufLen(arg.block_size) |-> 0]
    /\ overflow = {}
    /\ rs = RsIdle

\* Lines 70-80: the dsp build packs the offsets and counts the groups of four.
EnterUnrolled ==
    /\ pc = "entry" /\ build = "dsp"
    /\ loop_count' = UnrolledCount(arg.block_size)
    /\ pc' = "unrolled"
    /\ UNCHANGED <<build, arg, input_1_mem, input_2_mem, output_mem, input_1_vect,
                   input_2_vect, output, status, hist, reads_1, reads_2, writes,
                   overflow, rs>>

\* Line 143: the scalar build runs the element loop over the whole block.
EnterScalar ==
    /\ pc = "entry" /\ build = "scalar"
    /\ loop_count' = arg.block_size
    /\ pc' = "tail"
    /\ UNCHANGED <<build, arg, input_1_mem, input_2_mem, output_mem, input_1_vect,
                   input_2_vect, output, status, hist, reads_1, reads_2, writes,
                   overflow, rs>>

\* Lines 89-93: the packed additions of the zero points.
AddOffsets(in_1, in_2, offset_1_packed, offset_2_packed) ==
    [a_1 |-> SADD16(in_1.out2, offset_1_packed),
     b_1 |-> SADD16(in_1.out1, offset_1_packed),
     a_2 |-> SADD16(in_2.out2, offset_2_packed),
     b_2 |-> SADD16(in_2.out1, offset_2_packed)]
\* Lines 96-128: the lanes each multiplication takes, in the order r1, r2, r3, r4
\* (Mul 1 and Mul 3 read b, Mul 2 and Mul 4 read a).
Lanes(w) ==
    <<[input_1 |-> LowLane(w.b_1), input_2 |-> LowLane(w.b_2)],
      [input_1 |-> LowLane(w.a_1), input_2 |-> LowLane(w.a_2)],
      [input_1 |-> HighLane(w.b_1), input_2 |-> HighLane(w.b_2)],
      [input_1 |-> HighLane(w.a_1), input_2 |-> HighLane(w.a_2)]>>
MulLanes(l) == [k \in 1..4 |-> MulElement(l[k].input_1, l[k].input_2)]
\* Lines 86-134: the four elements of a group, as r1, r2, r3, r4.
Group(p1, p2) ==
    MulLanes(Lanes(AddOffsets(read_and_pad_reordered(input_1_mem, p1),
                              read_and_pad_reordered(input_2_mem, p2),
                              offset_packed(arg.input_1_offset),
                              offset_packed(arg.input_2_offset))))

\* Line 136 and the history of a group whose elements are r.
StoreGroup(r) ==
    /\ output_mem' = write_q7x4(output_mem, output,
                                PackResults(r[1].q7, r[2].q7, r[3].q7, r[4].q7))
    /\ hist' = [i \in DOMAIN hist |->
                   IF i \in (output + 1)..(output + 4) THEN r[i - output] ELSE hist[i]]
    /\ overflow' = overflow \cup UNION {r[k].ovf : k \in 1..4}

\* Lines 82-139: one iteration of the unrolled loop.
UnrolledLoop ==
    /\ pc = "unrolled" /\ loop_count > 0
    /\ StoreGroup(Group(input_1_vect, input_2_vect))
    /\ reads_1' = Bump(reads_1, (input_1_vect + 1)..(input_1_vect + 4))
    /\ reads_2' = Bump(reads_2, (input_2_vect + 1)..(input_2_vect + 4))
    /\ writes' = Bump(writes, (output + 1)..(output + 4))
    /\ input_1_vect' = input_1_vect + 4
    /\ input_2_vect' = input_2_vect + 4
    /\ output' = output + 4
    /\ loop_count' = loop_count - 1
    /\ UNCHANGED <<build, arg, input_1_mem, input_2_mem, pc, status, rs>>

\* Line 141: the unrolled loop is over; the remainder goes to the element loop.
EnterTail ==
    /\ pc = "unrolled" /\ loop_count = 0
    /\ loop_count' = TailCount(arg.block_size)
    /\ pc' = "tail"
    /\ UNCHANGED <<build, arg, input_1_mem, input_2_mem, output_mem, input_1_vect,
                   input_2_vect, output, status, hist, reads_1, reads_2, writes,
                   overflow, rs>>

\* The element of two corrected values, with the overflow of the corrections.
CorrectedElement(c_1, c_2) ==
    LET e == MulElement(c_1.v, c_2.v)
    IN [e EXCEPT !.ovf = @ \cup (IF c_1.ovf \/ c_2.ovf THEN {"correct"} ELSE {})]
\* Lines 150-159: the element the scalar loop computes from cell i of input 1
\* and cell j of input 2.
ScalarElement(i, j) ==
    CorrectedElement(Correct(input_1_mem[i], arg.input_1_offset),
                     Correct(input_2_mem[j], arg.input_2_offset))

\* Line 159 and the history of the element e.
StoreElement(e) ==
    /\ output_mem' = [output_mem EXCEPT ![output + 1] = e.q7]
    /\ hist' = [hist EXCEPT ![output + 1] = e]
    /\ overflow' = overflow \cup e.ovf

\* Lines 146-163: one iteration of the element loop.
ElementLoop ==
    /\ pc = "tail" /\ loop_count > 0
    /\ StoreElement(ScalarElement(input_1_vect + 1, input_2_vect + 1))
    /\ reads_1' = Bump(reads_1, {input_1_vect + 1})
    /\ reads_2' = Bump(reads_2, {input_2_vect + 1})
    /\ writes' = Bump(writes, {output + 1})
    /\ input_1_vect' = input_1_vect + 1
    /\ input_2_vect' = input_2_vect + 1
    /\ output' = output + 1
    /\ loop_count' = loop_count - 1
    /\ UNCHANGED <<build, arg, input_1_mem, input_2_mem, pc, status, rs>>

\* Line 165: return (ARM_MATH_SUCCESS).
Return ==
    /\ pc = "tail" /\ loop_count = 0
    /\ status' = "ARM_MATH_SUCCESS"
    /\ pc' = "done"
    /\ UNCHANGED <<build, arg, input_1_mem, input_2_mem, output_mem, input_1_vect,
                   input_2_vect, output, loop_count, hist, reads_1, reads_2, writes,
                   overflow, rs>>

Next == EnterUnrolled \/ EnterScalar \/ UnrolledLoop \/ EnterTail \/ ElementLoop \/ Return

Spec == Init /\ [][Next]_vars

(***************************************************************************)
(* The Fixed-Point Rescaler on its own: Rescale(value, multiplier, shift)  *)
(* is the doubling high multiply followed by the rounding shift.           *)
(***************************************************************************)
RsValues == (-MaxVal..MaxVal) \cup
            {Q31_MIN, Q31_MIN + 1, -Pow2(30), -65536, 65536, Pow2(30), Q31_MAX}
RsMults == {Q31_MIN, -Pow2(30), Pow2(30), Q31_MAX}
RsShifts == -1..MaxExp

KernelIdle ==
    /\ build = "scalar"
    /\ arg = [input_1_offset |-> 0, input_2_offset |-> 0, out_offset |-> 0,
              out_mult |-> Q31_MAX, out_shift |-> 0, out_activation_min |-> -128,
              out_activation_max |-> 127, block_size |-> 0]
    /\ input_1_mem = <<>> /\ input_2_mem = <<>> /\ output_mem = <<>>
    /\ input_1_vect = 0 /\ input_2_vect = 0 /\ output = 0
    /\ loop_count = 0 /\ pc = "idle" /\ status = "none"
    /\ hist = <<>> /\ reads_1 = <<>> /\ reads_2 = <<>> /\ writes = <<>>
    /\ overflow = {}

RsInit ==
    /\ KernelIdle
    /\ rs \in {[stage |-> "in", value |-> v, multiplier |-> m, shift |-> sh,
                high |-> 0, result |-> 0] :
                  v \in RsValues, m \in RsMults, sh \in RsShifts}

kernel_vars == <<build, arg, input_1_mem, input_2_mem, output_mem, input_1_vect,
                 input_2_vect, output, loop_count, pc, status, hist, reads_1,
                 reads_2, writes, overflow>>

\* Stage 1: the saturating doubling high multiply.
RsHighMult ==
    /\ rs.stage = "in"
    /\ rs' = [rs EXCEPT !.stage = "mul",
                        !.high = sat_doubling_high_mult(rs.value, rs.multiplier)]
    /\ UNCHANGED kernel_vars

\* Stage 2: the rounding power-of-two rescale.
RsShift ==
    /\ rs.stage = "mul"
    /\ rs' = [rs EXCEPT !.stage = "out",
                        !.result = divide_by_power_of_two(rs.high, rs.shift)]
    /\ UNCHANGED kernel_vars

RsNext == RsHighMult \/ RsShift

RescaleSpec == RsInit /\ [][RsNext]_vars

(***************************************************************************)
(* Vocabulary of the properties.                                           *)
(***************************************************************************)
InSampleRange(x) == -128 <= x /\ x <= 127
InLaneRange(x) == -Q15 <= x /\ x < Q15

\* The documented preconditions of a call.
ValidOffsets == InSampleRange(arg.input_1_offset) /\ InSampleRange(arg.input_2_offset)
ValidActivation ==
    /\ arg.out_activation_min <= arg.out_activation_max
    /\ InSampleRange(arg.out_activation_min)
    /\ InSampleRange(arg.out_activation_max)
ValidCall == ValidOffsets /\ ValidActivation

\* The output cells written so far, and the cells the unrolled loop owns.
Produced == {i \in DOMAIN writes : writes[i] > 0}
Grouped == 1..(4 * (arg.block_size \div 4))

\* x / 2^n rounded to the nearest integer, ties away from zero, from the floor
\* quotient q and the remainder rem in 0 .. 2^n - 1.
HalfAway(x, n) ==
    LET q == x \div Pow2(n)
        rem == x % Pow2(n)
    IN IF 2 * rem > Pow2(n) \/ (2 * rem = Pow2(n) /\ x > 0) THEN q + 1 ELSE q
\* x / 2^n is exactly halfway between two integers.
IsTie(x, n) == n > 0 /\ 2 * (x % Pow2(n)) = Pow2(n)
\* floor((x + 2^(n-1)) / 2^n) in exact arithmetic: bias, then arithmetic shift.
BiasFloor(x, n) ==
    (x \div Pow2(n)) + (IF n > 0 /\ 2 * (x % Pow2(n)) >= Pow2(n) THEN 1 ELSE 0)

\* The corrected values of element i in exact arithmetic, and their product.
Corrected_1(i) == input_1_mem[i] + arg.input_1_offset
Corrected_2(i) == input_2_mem[i] + arg.input_2_offset
\* The high multiply of the product the executing path formed for element i.
HighOf(i) == sat_doubling_high_mult(hist[i].product, arg.out_mult)

(***************************************************************************)
(* C1  Path equivalence.  For every valid call (zero points within the     *)
(* sample range, out_activation_min <= out_activation_max within int8) and *)
(* every block_size, on return the output buffer of either build holds in  *)
(* each cell below block_size what the scalar loop computes from the same  *)
(* index, whichever loop wrote it, and is untouched beyond: the dsp build  *)
(* writes the sequence the scalar build writes.                            *)
(***************************************************************************)
C1_PathEquivalence ==
    (ValidCall /\ pc = "done") =>
        output_mem = [i \in DOMAIN output_mem |->
                         IF i <= arg.block_size THEN ScalarElement(i, i).q7 ELSE 0]

\* A dsp call of one group and a remainder of three has returned, with a
\* negative zero point and distinct results in the group and in the remainder.
C1_Witness ==
    /\ build = "dsp" /\ pc = "done" /\ ValidCall
    /\ arg.block_size = 7 /\ arg.input_1_offset = -128
    /\ \A i \in 1..7 : output_mem[i] = ScalarElement(i, i).q7
    /\ output_mem[1] # output_mem[2] /\ output_mem[5] # output_mem[7]

(***************************************************************************)
(* C2  Range bound.  With out_activation_min <= out_activation_max, both   *)
(* within [-128, 127], every stored int8 lies in                           *)
(* [out_activation_min, out_activation_max] and equals the clamped 32-bit  *)
(* value: the narrowing cast changes nothing.                              *)
(***************************************************************************)
C2_RangeBound ==
    ValidActivation =>
        \A i \in Produced :
            /\ arg.out_activation_min <= output_mem[i]
            /\ output_mem[i] <= arg.out_activation_max
            /\ output_mem[i] = hist[i].mul_res

\* Both ends of a narrowed activation range have clamped an element.
C2_Witness ==
    /\ ValidActivation /\ arg.out_activation_max = 30
    /\ \E i \in Produced : hist[i].sum > 127 /\ output_mem[i] = 30
    /\ \E i \in Produced : hist[i].sum < -128 /\ output_mem[i] = -20

(***************************************************************************)
(* C3  Corrected product.  Where the lanes can hold the corrected values   *)
(* (the scalar build, or zero points within the sample range), on return   *)
(* the value                                                               *)
(* rescaled for element i is (input_1[i] + input_1_offset) *               *)
(* (input_2[i] + input_2_offset); out_offset is added after the rescale    *)
(* and before the clamp; the output is the narrowed clamped sum.  With     *)
(* input_1[i] = 0, input_1_offset = 5, input_2[i] = 2, input_2_offset = 0  *)
(* and a unity rescale the sum is 10 + out_offset.                         *)
(***************************************************************************)
C3_CorrectedProduct ==
    (pc = "done" /\ (build = "scalar" \/ ValidOffsets)) =>
        \A i \in Produced :
            LET p == Corrected_1(i) * Corrected_2(i)
                r == Add32(divide_by_power_of_two(
                               sat_doubling_high_mult(p, arg.out_mult), -arg.out_shift),
                           arg.out_offset).v
            IN /\ hist[i].product = p
               /\ hist[i].sum = r
               /\ hist[i].mul_res = MIN(MAX(r, arg.out_activation_min),
                                        arg.out_activation_max)
               /\ output_mem[i] = S8(hist[i].mul_res)
               /\ (/\ input_1_mem[i] = 0 /\ arg.input_1_offset = 5
                   /\ input_2_mem[i] = 2 /\ arg.input_2_offset = 0
                   /\ arg.out_mult = Q31_MAX /\ arg.out_shift = 0)
                  => hist[i].sum = Add32(10, arg.out_offset).v

\* The offset correction scenario, with out_offset = -3, stored as 7.
C3_Witness ==
    /\ build = "scalar" /\ pc = "done" /\ 1 \in Produced
    /\ input_1_mem[1] = 0 /\ arg.input_1_offset = 5
    /\ input_2_mem[1] = 2 /\ arg.input_2_offset = 0
    /\ arg.out_mult = Q31_MAX /\ arg.out_shift = 0 /\ arg.out_offset = -3
    /\ arg.out_activation_min = -128 /\ arg.out_activation_max = 127
    /\ hist[1].product = 10 /\ output_mem[1] = 7

(***************************************************************************)
(* C4  Shift convention, as the code has it.  The kernel passes -out_shift *)
(* as the exponent: for out_shift <= 0 the high multiply's result is       *)
(* divided by 2^(-out_shift), rounded to nearest with ties away from zero  *)
(* (unchanged when out_shift = 0), and out_offset is added to that.        *)
(***************************************************************************)
C4_ShiftNegated ==
    (pc = "done" /\ arg.out_shift <= 0) =>
        \A i \in Produced :
            hist[i].sum = Add32(HalfAway(HighOf(i), -arg.out_shift), arg.out_offset).v

\* The shift as the contract of Rescale reads it: out_shift >= 0 a rounding
\* right shift by out_shift, out_shift < 0 an exact left shift by -out_shift.
ClaimedShift(x, shift) ==
    IF shift >= 0 THEN HalfAway(x, shift) ELSE ShiftLeft32(x, -shift)

\* C4 as stated: the element's rescaled sum is the high multiply's result
\* shifted by out_shift with the sign convention of Rescale (non-negative:
\* right, negative: left), plus out_offset.
C4_AsStated ==
    pc = "done" =>
      \A i \in Produced :
        hist[i].sum = Add32(ClaimedShift(HighOf(i), arg.out_shift), arg.out_offset).v

\* out_shift = -2 has divided 30 by four and rounded 7.5 up to 8, and has
\* divided -15 by four and rounded -3.75 to -4.
C4_Witness ==
    /\ pc = "done"
    /\ arg.out_shift = -2 /\ arg.out_mult = Q31_MAX /\ arg.out_offset = 0
    /\ \E i \in Produced : hist[i].product = 30 /\ hist[i].sum = 8
    /\ \E i \in Produced : hist[i].product = -15 /\ hist[i].sum = -4

(***************************************************************************)
(* C5  Frame and termination.  In both builds every step of the call       *)
(* lowers the bound on the steps left, which is 0 only on return, so the   *)
(* call terminates; each loop counter accounts for exactly the elements    *)
(* still to do, no cell is read or written twice and none at or beyond     *)
(* block_size is touched, the inputs stay as the caller filled them, and   *)
(* on return the status is ARM_MATH_SUCCESS and cells 0 .. block_size-1 of *)
(* each buffer have been accessed exactly once (none when block_size = 0). *)
(***************************************************************************)
\* A bound on the steps left: the iterations still to run and the transfers
\* between the loops.
StepsLeft ==
    IF pc = "entry" THEN arg.block_size + 6
    ELSE IF pc = "unrolled" THEN loop_count + 5
    ELSE IF pc = "tail" THEN loop_count + 1
    ELSE 0

C5_FrameInv ==
    /\ pc \in {"entry", "unrolled", "tail", "done"}
    /\ loop_count >= 0
    /\ input_1_vect = output /\ input_2_vect = output
    /\ pc = "entry" => output = 0
    /\ pc = "unrolled" => output + 4 * loop_count = 4 * (arg.block_size \div 4)
    /\ pc = "tail" => output + loop_count = arg.block_size
    /\ \A i \in DOMAIN writes :
          /\ reads_1[i] = (IF i <= output THEN 1 ELSE 0)
          /\ reads_2[i] = reads_1[i]
          /\ writes[i] = reads_1[i]
          /\ i > arg.block_size => output_mem[i] = 0
    /\ \E p1 \in Patterns_1 : input_1_mem = Fill(p1, BufLen(arg.block_size))
    /\ \E p2 \in Patterns_2 : input_2_mem = Fill(p2, BufLen(arg.block_size))
    /\ status = (IF pc = "done" THEN "ARM_MATH_SUCCESS" ELSE "none")
    /\ pc = "done" => output = arg.block_size

C5_Frame == []C5_FrameInv /\ [][StepsLeft' < StepsLeft]_vars

\* A dsp call over one group and a remainder of one has returned.
C5_Witness ==
    /\ build = "dsp" /\ pc = "done" /\ status = "ARM_MATH_SUCCESS"
    /\ arg.block_size = 5
    /\ \A i \in 1..5 : reads_1[i] = 1 /\ reads_2[i] = 1 /\ writes[i] = 1
    /\ \A i \in 6..BufLen(5) : reads_1[i] = 0 /\ writes[i] = 0

(***************************************************************************)
(* C6  Unity rescale, as the code can express it.  2^30 doubled is 2^31,   *)
(* which no int32 out_mult holds; with the largest multiplier INT32_MAX    *)
(* and out_shift = 0 the rescale returns every product the kernel forms    *)
(* (all below 2^30 in magnitude) unchanged, so with both zero points 0,    *)
(* out_offset 0 and the full activation range the kernel stores            *)
(* input_1[i] * input_2[i] whenever that lies in [-128, 127].              *)
(***************************************************************************)
C6_UnityRescale ==
    (arg.out_mult = Q31_MAX /\ arg.out_shift = 0 /\ arg.out_offset = 0) =>
        \A i \in Produced :
            /\ hist[i].sum = hist[i].product
            /\ (/\ arg.input_1_offset = 0 /\ arg.input_2_offset = 0
                /\ arg.out_activation_min = -128 /\ arg.out_activation_max = 127
                /\ InSampleRange(input_1_mem[i] * input_2_mem[i]))
               => output_mem[i] = input_1_mem[i] * input_2_mem[i]

\* 2^30 doubled, as the int32 the parameter out_mult receives.
UnityAsStated == ShiftLeft32(Pow2(30), 1)

\* C6 as stated: with the multiplier 2^30 doubled and shift 0 the rescale is
\* the identity, and the kernel stores in-range products unchanged.
C6_AsStated ==
    (arg.out_mult = UnityAsStated /\ arg.out_shift = 0 /\ arg.out_offset = 0) =>
        \A i \in Produced :
            /\ hist[i].sum = hist[i].product
            /\ (/\ arg.input_1_offset = 0 /\ arg.input_2_offset = 0
                /\ arg.out_activation_min = -128 /\ arg.out_activation_max = 127
                /\ InSampleRange(input_1_mem[i] * input_2_mem[i]))
               => output_mem[i] = input_1_mem[i] * input_2_mem[i]

\* The concrete scenario: [10, -5] times [3, 3] has been stored as [30, -15].
C6_Witness ==
    /\ pc = "done" /\ arg.block_size = 2
    /\ arg.out_mult = Q31_MAX /\ arg.out_shift = 0 /\ arg.out_offset = 0
    /\ arg.input_1_offset = 0 /\ arg.input_2_offset = 0
    /\ arg.out_activation_min = -128 /\ arg.out_activation_max = 127
    /\ input_1_mem[1] = 10 /\ input_1_mem[2] = -5
    /\ input_2_mem[1] = 3 /\ input_2_mem[2] = 3
    /\ output_mem[1] = 30 /\ output_mem[2] = -15

(***************************************************************************)
(* C9  No overflow, within the range out_offset allows.  For a valid call  *)
(* with out_shift <= 0 and out_offset in                                   *)
(* [INT32_MIN + 65536, INT32_MAX - 65536], no corrected value, product,    *)
(* rescaled value or sum leaves the int32 range; every product and every   *)
(* rescaled value has magnitude at most 65536.                             *)
(***************************************************************************)
OutOffsetFits ==
    /\ Q31_MIN + 65536 <= arg.out_offset
    /\ arg.out_offset <= Q31_MAX - 65536

C9_NoOverflow ==
    (ValidCall /\ arg.out_shift <= 0 /\ OutOffsetFits) =>
        /\ overflow = {}
        /\ \A i \in Produced :
              /\ -65536 <= hist[i].product /\ hist[i].product <= 65536
              /\ -65536 <= hist[i].sum - arg.out_offset
              /\ hist[i].sum - arg.out_offset <= 65536

\* C9 as stated: for a valid call with any 32-bit out_mult and out_offset and
\* a right-shifting out_shift, no intermediate leaves the int32 range.
C9_AsStated ==
    (ValidCall /\ arg.out_shift <= 0) => overflow = {}

\* The largest product, 65536, rescaled by INT32_MAX to 65536, has met the
\* largest out_offset that fits: the sum is INT32_MAX and nothing overflowed.
C9_Witness ==
    /\ ValidCall /\ arg.out_offset = Q31_MAX - 65536 /\ overflow = {}
    /\ \E i \in Produced : hist[i].product = 65536 /\ hist[i].sum = Q31_MAX

(***************************************************************************)
(* C10  Packed lanes.  In the dsp build, on return, each element of a      *)
(* group was computed from the lanes (int16)(input_1[i] + input_1_offset)  *)
(* and (int16)(input_2[i] + input_2_offset) of its own index i, the sum    *)
(* taken in wrapping 16-bit arithmetic from the low 16 bits of the offset; *)
(* the lane is the scalar loop's corrected value exactly when that value   *)
(* lies in [-32768, 32767], which it always does for zero points within    *)
(* the sample range.                                                       *)
(***************************************************************************)
C10_PackedLanes ==
    (build = "dsp" /\ pc = "done") =>
        \A i \in Grouped :
            /\ hist[i].input_1 = S16(input_1_mem[i] + S16(arg.input_1_offset))
            /\ hist[i].input_2 = S16(input_2_mem[i] + S16(arg.input_2_offset))
            /\ output_mem[i] = MulElement(S16(Corrected_1(i)), S16(Corrected_2(i))).q7
            /\ (hist[i].input_1 = Corrected_1(i)) <=> InLaneRange(Corrected_1(i))
            /\ (hist[i].input_2 = Corrected_2(i)) <=> InLaneRange(Corrected_2(i))
            /\ ValidOffsets => InLaneRange(Corrected_1(i)) /\ InLaneRange(Corrected_2(i))

\* A zero point beyond the lane: the dsp build has returned a group element
\* that differs from what the scalar loop computes from the same index.
C10_Witness ==
    /\ build = "dsp" /\ pc = "done" /\ ~InLaneRange(arg.input_1_offset)
    /\ \E i \in Grouped :
          /\ hist[i].input_1 # Corrected_1(i)
          /\ output_mem[i] # ScalarElement(i, i).q7

(***************************************************************************)
(* C7  Rounding shift.  For every shift s > 0 the second stage returns     *)
(* x / 2^s rounded to the nearest integer, ties away from zero.  That is   *)
(* the biased shift floor((x + 2^(s-1)) / 2^s) for every x >= 0 and every  *)
(* x that is not an exact tie; for a negative tie it is one less.          *)
(***************************************************************************)
C7_RoundingShift ==
    (rs.stage = "out" /\ rs.shift > 0) =>
        /\ rs.result = HalfAway(rs.high, rs.shift)
        /\ (rs.high >= 0 \/ ~IsTie(rs.high, rs.shift))
              => rs.result = BiasFloor(rs.high, rs.shift)
        /\ (rs.high < 0 /\ IsTie(rs.high, rs.shift))
              => rs.result = BiasFloor(rs.high, rs.shift) - 1

\* C7 as stated: for every x, negative as well as positive, the result is
\* x / 2^s rounded half away from zero and is also the biased shift.
C7_AsStated ==
    (rs.stage = "out" /\ rs.shift > 0) =>
        /\ rs.result = HalfAway(rs.high, rs.shift)
        /\ rs.result = BiasFloor(rs.high, rs.shift)

\* The negative tie -3 / 2 has been rounded away from zero, to -2.
C7_Witness ==
    rs.stage = "out" /\ rs.high = -3 /\ rs.shift = 1 /\ rs.result = -2

(***************************************************************************)
(* C8  Saturation.  The doubling high multiply of any two int32 operands   *)
(* lies in [INT32_MIN, INT32_MAX] and is non-negative when the operands    *)
(* agree in sign; for INT32_MIN times INT32_MIN it is INT32_MAX, and       *)
(* Rescale(INT32_MIN, INT32_MIN, 0) is INT32_MAX, the saturated value, not *)
(* the wrapped INT32_MIN.                                                  *)
(***************************************************************************)
C8_Saturation ==
    rs.stage \in {"mul", "out"} =>
        /\ IsInt32(rs.high)
        /\ (rs.value = Q31_MIN /\ rs.multiplier = Q31_MIN) => rs.high = Q31_MAX
        /\ (rs.value >= 0) = (rs.multiplier >= 0) => rs.high >= 0
        /\ (rs.stage = "out" /\ rs.shift = 0 /\ rs.value = Q31_MIN
              /\ rs.multiplier = Q31_MIN) => rs.result = Q31_MAX

\* Rescale(INT32_MIN, INT32_MIN, 0) has returned INT32_MAX.
C8_Witness ==
    /\ rs.stage = "out" /\ rs.shift = 0
    /\ rs.value = Q31_MIN /\ rs.multiplier = Q31_MIN /\ rs.result = Q31_MAX
====
